---- MODULE Spec2Model ----
(***************************************************************************)
(* A model of extractor.py of project-metro: the batch that reads monthly  *)
(* ridership workbooks (sheet "Daily"), extracts the time tokens, the      *)
(* generated date tokens and the per-station value series of each file,    *)
(* aggregates them over the files of raw-data/ and writes one JSON object. *)
(*                                                                         *)
(* Python values are modelled by what the code asks of them:               *)
(*   - a cell is a record [t, i, s]: t is the Python type of the value     *)
(*     ("none", "int", "str", "float"), i the integer, s the text;         *)
(*   - a list is a sequence;                                               *)
(*   - a dict is a sequence of [k, v] entries with distinct keys, in       *)
(*     insertion order (the order .items() iterates in);                   *)
(*   - a file name is a sequence of characters;                            *)
(*   - a raised exception is the name of its class, "none" when the call   *)
(*     returned.                                                           *)
(***************************************************************************)
EXTENDS Integers, Sequences, FiniteSets, TLC

(* The sheet window of get_col_rows: iter_rows reads columns 1..MaxCol and *)
(* iter_cols reads columns MinCol..MaxCol.                                 *)
MinCol == 2
MaxCol == 27

(* The 1-based positions of row[0], row[1] and row[5].                     *)
TimeCol == 1
MarkerCol == 2
SignalCol == 6

(* Bounds of the model: the rows of a sheet (table.max_row) and the number *)
(* of files os.listdir returns.                                            *)
MaxRow == 3
MaxFiles == 2

(***************************************************************************)
(* Cells.                                                                  *)
(***************************************************************************)
None == [t |-> "none", i |-> 0, s |-> ""]
PyInt(n) == [t |-> "int", i |-> n, s |-> ""]
PyStr(x) == [t |-> "str", i |-> 0, s |-> x]
PyFloat(x) == [t |-> "float", i |-> 0, s |-> x]

(* np.nan is a float.                                                      *)
NaN == PyFloat("nan")

(* isinstance(cell, int), cell is None, isinstance(cell, str).             *)
IsInstanceInt(cell) == cell.t = "int"
IsNone(cell) == cell.t = "none"
IsInstanceStr(cell) == cell.t = "str"

(***************************************************************************)
(* Dicts.                                                                  *)
(***************************************************************************)
Keys(d) == {d[j].k : j \in 1..Len(d)}

DictHas(d, key) == key \in Keys(d)

DictGet(d, key) == d[CHOOSE j \in 1..Len(d) : d[j].k = key].v

(* d[key] = value: an existing key keeps its position, a new one is added  *)
(* at the end.                                                             *)
DictSet(d, key, value) ==
    IF DictHas(d, key)
    THEN LET at == CHOOSE j \in 1..Len(d) : d[j].k = key
         IN  SubSeq(d, 1, at - 1) \o << [k |-> key, v |-> value] >> \o SubSeq(d, at + 1, Len(d))
    ELSE Append(d, [k |-> key, v |-> value])

(* del d[key], for a key that is present.                                  *)
DictDel(d, key) == SelectSeq(d, LAMBDA e : e.k # key)

(***************************************************************************)
(* The input: the files of raw-data/.  A file has a name and a content;    *)
(* kind says what load_workbook(...)["Daily"] does with the content:       *)
(*   "ok"       the workbook opens and has a sheet "Daily", whose rows are *)
(*              given by the row templates in rows;                        *)
(*   "nosheet"  the workbook opens and has no sheet "Daily":               *)
(*              Workbook.__getitem__ raises KeyError;                      *)
(*   "notzip"   the file is no zip archive: load_workbook raises           *)
(*              BadZipFile;                                                *)
(*   "badvalue" the workbook holds a value openpyxl rejects while reading: *)
(*              load_workbook raises ValueError.                           *)
(***************************************************************************)
StationNames ==
    << "North", "Quezon", "Kamuning", "Cubao", "Santolan", "Ortigas", "Shaw",
       "Boni", "Guadalupe", "Buendia", "Ayala", "Magallanes", "Taft" >>

RowTemplates == { "names", "marker", "data", "entrydata", "holes", "nosignal", "dash" }

(* The cell of column c in row r of a sheet whose row r follows template   *)
(* tpl.  A station takes two columns, entries then exits, from column 2.   *)
(*   names      the station names over the entry columns                   *)
(*   names2     the same with another name over the last entry column      *)
(*   marker     "Entry" / "Exit" over the columns, "Time" in column 1      *)
(*   entries    "Entry" over every column, "Time" in column 1              *)
(*   data       the hour in column 1 and a count in every column           *)
(*   entrydata  a data row with "Entry" in column 2                        *)
(*   holes      a data row with columns 2, 4, 5 and 27 empty               *)
(*   nosignal   a data row with the signal column empty                    *)
(*   dash       a data row with "-" in column 4 and 2.5 in column 8        *)
(* names2 and entries occur in MonthlySheets only.                         *)
Count(r, c) == PyInt(100 * r + c)

SheetCell(tpl, r, c) ==
    CASE tpl = "names" ->
            IF c >= MinCol /\ c % 2 = 0 /\ c \div 2 <= Len(StationNames)
            THEN PyStr(StationNames[c \div 2]) ELSE None
      [] tpl = "names2" ->
            IF c >= MinCol /\ c % 2 = 0 /\ c \div 2 <= Len(StationNames)
            THEN (IF c + 2 > MaxCol THEN PyStr("Depot") ELSE PyStr(StationNames[c \div 2]))
            ELSE None
      [] tpl = "marker" ->
            IF c = TimeCol THEN PyStr("Time")
            ELSE IF c % 2 = 0 THEN PyStr("Entry") ELSE PyStr("Exit")
      [] tpl = "entries" ->
            IF c = TimeCol THEN PyStr("Time") ELSE PyStr("Entry")
      [] tpl = "data" ->
            IF c = TimeCol THEN PyInt(r) ELSE Count(r, c)
      [] tpl = "entrydata" ->
            IF c = TimeCol THEN PyInt(r)
            ELSE IF c = MarkerCol THEN PyStr("Entry") ELSE Count(r, c)
      [] tpl = "holes" ->
            IF c = TimeCol THEN PyInt(r)
            ELSE IF c \in {MinCol, 4, 5, MaxCol} THEN None ELSE Count(r, c)
      [] tpl = "nosignal" ->
            IF c = TimeCol THEN PyInt(r)
            ELSE IF c = SignalCol THEN None ELSE Count(r, c)
      [] tpl = "dash" ->
            IF c = TimeCol THEN PyInt(r)
            ELSE IF c = 4 THEN PyStr("-")
            ELSE IF c = 8 THEN PyFloat("2.5") ELSE Count(r, c)
      [] OTHER -> None

(* The sheet "Daily" of a workbook: rows 1..max_row, columns 1..MaxCol.    *)
Sheet(rows) == [r \in 1..Len(rows) |-> [c \in 1..MaxCol |-> SheetCell(rows[r], r, c)]]

(* The names os.listdir returns, as characters.                            *)
FileNames ==
    << << "2", "4", "0", "1", ".", "x", "l", "s", "x" >>,
       << "2", "4", "0", "2", ".", "v", "2", ".", "x", "l", "s", "x" >>,
       << "2", "4", "0", "3", ".", "x", "l", "s", "x" >>,
       << "2", "4", "0", "4", ".", "x", "l", "s", "x" >>,
       << "2", "4", "0", "5", ".", "x", "l", "s", "x" >> >>

(***************************************************************************)
(* get_col_rows: the column-wise view (columns MinCol..MaxCol) and the     *)
(* row-wise view (columns 1..MaxCol) of the sheet "Daily", or the          *)
(* exception load_workbook(...)["Daily"] raises.                           *)
(***************************************************************************)
get_col_rows(excel_file) ==
    LET table == Sheet(excel_file.rows)
        table_total_rows == Len(table)
    IN  CASE excel_file.kind = "nosheet" ->
                [exc |-> "KeyError", table_cols |-> <<>>, table_rows |-> <<>>]
          [] excel_file.kind = "notzip" ->
                [exc |-> "BadZipFile", table_cols |-> <<>>, table_rows |-> <<>>]
          [] excel_file.kind = "badvalue" ->
                [exc |-> "ValueError", table_cols |-> <<>>, table_rows |-> <<>>]
          [] OTHER ->
                [exc |-> "none",
                 table_cols |-> [c \in 1..(MaxCol - MinCol + 1) |->
                                    [r \in 1..table_total_rows |-> table[r][c + MinCol - 1]]],
                 table_rows |-> table]

(***************************************************************************)
(* extract_ridership.                                                      *)
(***************************************************************************)
(* The position in col_list of col_list[idx_col-1]; positions count from 1 *)
(* here, and Python's index -1 is the last element.                        *)
ReferenceIndex(idx_col, n) == IF idx_col = 1 THEN n ELSE idx_col - 1

(* value_list and str_list after the first n cells of col, reference being *)
(* the column the reference cells are taken from.                          *)
(* ScanColumn with "-" taken as an observation: a placeholder in the value *)
(* series and no label candidate.                                          *)
RECURSIVE ScanColumn_dash(_, _, _)
ScanColumn_dash(col, reference, n) ==
    IF n = 0
    THEN [value_list |-> <<>>, str_list |-> <<>>]
    ELSE LET before == ScanColumn_dash(col, reference, n - 1)
             cell == col[n]
             reference_cell == reference[n]
             missing == IF IsNone(cell) /\ IsInstanceInt(reference_cell)
                        THEN Append(before.value_list, NaN)
                        ELSE before.value_list
         IN  [value_list |-> IF IsInstanceInt(cell) \/ cell = PyStr("-")
                             THEN Append(missing, cell) ELSE missing,
              str_list |-> IF IsInstanceStr(cell) /\ cell # PyStr("-")
                           THEN Append(before.str_list, cell.s)
                           ELSE before.str_list]

RECURSIVE ScanColumn(_, _, _)
ScanColumn(col, reference, n) ==
    IF n = 0
    THEN [value_list |-> <<>>, str_list |-> <<>>]
    ELSE LET before == ScanColumn(col, reference, n - 1)
             cell == col[n]
             reference_cell == reference[n]
             missing == IF IsNone(cell) /\ IsInstanceInt(reference_cell)
                        THEN Append(before.value_list, NaN)
                        ELSE before.value_list
         IN  [value_list |-> IF IsInstanceInt(cell) THEN Append(missing, cell) ELSE missing,
              str_list |-> IF IsInstanceStr(cell)
                           THEN Append(before.str_list, cell.s)
                           ELSE before.str_list]

(* value_list and str_list of column idx_col of col_list.                  *)
ColumnLists(col_list, idx_col) ==
    ScanColumn(col_list[idx_col],
               col_list[ReferenceIndex(idx_col, Len(col_list))],
               Len(col_list[idx_col]))

(* station_riders_dict after the first n columns; str_list[0] raises       *)
(* IndexError for a column without text.                                   *)
RECURSIVE ExtractColumns(_, _)
ExtractColumns(col_list, n) ==
    IF n = 0
    THEN [exc |-> "none", dict |-> <<>>]
    ELSE LET before == ExtractColumns(col_list, n - 1)
             lists == ColumnLists(col_list, n)
         IN  IF before.exc # "none" THEN before
             ELSE IF lists.str_list = <<>>
             THEN [exc |-> "IndexError", dict |-> before.dict]
             ELSE [exc |-> "none",
                   dict |-> DictSet(before.dict, lists.str_list[1], lists.value_list)]

(* extract_ridership without the del.                                      *)
extract_ridership_keep(col_list) == ExtractColumns(col_list, Len(col_list))

(* del station_riders_dict["Exit"] raises KeyError when no column is       *)
(* labelled "Exit".                                                        *)
extract_ridership(col_list) ==
    LET all == ExtractColumns(col_list, Len(col_list))
    IN  IF all.exc # "none" THEN all
        ELSE IF ~DictHas(all.dict, "Exit")
        THEN [exc |-> "KeyError", dict |-> all.dict]
        ELSE [exc |-> "none", dict |-> DictDel(all.dict, "Exit")]

(***************************************************************************)
(* extract_time.                                                           *)
(***************************************************************************)
(* ExtractTimeLoop with the test on row[1] instead of row[5].              *)
RECURSIVE ExtractTimeLoop_marker(_, _)
ExtractTimeLoop_marker(row_list, n) ==
    IF n = 0 THEN <<>>
    ELSE LET time_list == ExtractTimeLoop_marker(row_list, n - 1)
             row == row_list[n]
         IN  IF IsInstanceInt(row[MarkerCol]) THEN Append(time_list, row[TimeCol])
             ELSE time_list

RECURSIVE ExtractTimeLoop(_, _)
ExtractTimeLoop(row_list, n) ==
    IF n = 0 THEN <<>>
    ELSE LET time_list == ExtractTimeLoop(row_list, n - 1)
             row == row_list[n]
         IN  IF IsInstanceInt(row[SignalCol]) THEN Append(time_list, row[TimeCol])
             ELSE time_list

extract_time(row_list) == ExtractTimeLoop(row_list, Len(row_list))

(***************************************************************************)
(* generate_date.                                                          *)
(***************************************************************************)
(* excel_file.split(".")[0]: the characters before the first ".".          *)
RECURSIVE SplitFirst(_)
SplitFirst(name) ==
    IF name = <<>> \/ Head(name) = "." THEN <<>>
    ELSE <<Head(name)>> \o SplitFirst(Tail(name))

(* f"{year_month}-{day}".                                                  *)
DateToken(year_month, day) == [year_month |-> year_month, day |-> day]

(* GenerateDateLoop with the token recorded before the marker is counted.  *)
RECURSIVE GenerateDateLoop_late(_, _, _)
GenerateDateLoop_late(row_list, year_month, n) ==
    IF n = 0
    THEN [day |-> 0, dates_list |-> <<>>]
    ELSE LET before == GenerateDateLoop_late(row_list, year_month, n - 1)
             row == row_list[n]
         IN  [day |-> IF row[MarkerCol] = PyStr("Entry") THEN before.day + 1 ELSE before.day,
              dates_list |-> IF IsInstanceInt(row[SignalCol])
                             THEN Append(before.dates_list, DateToken(year_month, before.day))
                             ELSE before.dates_list]

(* day and dates_list after the first n rows.                              *)
RECURSIVE GenerateDateLoop(_, _, _)
GenerateDateLoop(row_list, year_month, n) ==
    IF n = 0
    THEN [day |-> 0, dates_list |-> <<>>]
    ELSE LET before == GenerateDateLoop(row_list, year_month, n - 1)
             row == row_list[n]
             day == IF row[MarkerCol] = PyStr("Entry") THEN before.day + 1 ELSE before.day
         IN  [day |-> day,
              dates_list |-> IF IsInstanceInt(row[SignalCol])
                             THEN Append(before.dates_list, DateToken(year_month, day))
                             ELSE before.dates_list]

generate_date(row_list, excel_file) ==
    GenerateDateLoop(row_list, SplitFirst(excel_file), Len(row_list)).dates_list

(***************************************************************************)
(* troubleshoot: the block appended to the dated log.  outcome is what the *)
(* file system does: "ok"; "OSError" when open() fails; or                 *)
(* "UnicodeEncodeError" when log.write cannot encode the text (the file    *)
(* name or a station name) in the log's encoding.                          *)
(***************************************************************************)
LogOutcomes == {"ok", "OSError", "UnicodeEncodeError"}

troubleshoot(time_list, dates_list, station_riders_dict, excel_file, outcome) ==
    LET hours_count == Len(time_list)
        dates_count == Len(dates_list)
        station_count == [j \in 1..Len(station_riders_dict) |->
                             [k |-> station_riders_dict[j].k,
                              v |-> hours_count - Len(station_riders_dict[j].v)]]
    IN  [exc |-> IF outcome = "ok" THEN "none" ELSE outcome,
         block |-> IF outcome = "ok"
                   THEN << [file |-> excel_file, time |-> hours_count,
                            date |-> dates_count, station |-> station_count] >>
                   ELSE <<>>]

(***************************************************************************)
(* compile_values: the body of the loop for one file.                      *)
(***************************************************************************)
(* The branch taken when station_dict is not empty, after the first n      *)
(* items of station_riders_dict: station_dict[station] += values raises    *)
(* KeyError for a station that is no key of station_dict.                  *)
RECURSIVE AppendStations(_, _, _)
AppendStations(station_dict, station_riders_dict, n) ==
    IF n = 0
    THEN [exc |-> "none", dict |-> station_dict]
    ELSE LET before == AppendStations(station_dict, station_riders_dict, n - 1)
             station == station_riders_dict[n].k
             values == station_riders_dict[n].v
         IN  IF before.exc # "none" THEN before
             ELSE IF ~DictHas(before.dict, station)
             THEN [exc |-> "KeyError", dict |-> before.dict]
             ELSE [exc |-> "none",
                   dict |-> DictSet(before.dict, station,
                                    DictGet(before.dict, station) \o values)]

(* The branch taken when station_dict is empty.                            *)
RECURSIVE AssignStations(_, _, _)
AssignStations(station_dict, station_riders_dict, n) ==
    IF n = 0
    THEN [exc |-> "none", dict |-> station_dict]
    ELSE LET before == AssignStations(station_dict, station_riders_dict, n - 1)
         IN  [exc |-> "none",
              dict |-> DictSet(before.dict, station_riders_dict[n].k,
                               station_riders_dict[n].v)]

(* MergeStations that assigns in both branches.                            *)
MergeStations_assign(station_dict, station_riders_dict) ==
    AssignStations(station_dict, station_riders_dict, Len(station_riders_dict))

MergeStations(station_dict, station_riders_dict) ==
    IF station_dict # <<>>
    THEN AppendStations(station_dict, station_riders_dict, Len(station_riders_dict))
    ELSE AssignStations(station_dict, station_riders_dict, Len(station_riders_dict))

(* except ValueError catches ValueError and its subclasses.                *)
IsValueError(exc) == exc \in {"ValueError", "UnicodeEncodeError"}

(* The statements of the try block before the call of troubleshoot, in     *)
(* order, up to the first that raises: the aggregates as they are then,    *)
(* the exception, and the results of the file.                             *)
TryExtractAndMerge(agg, excel_file) ==
    LET view == get_col_rows(excel_file)
        times == extract_time(view.table_rows)
        dates == generate_date(view.table_rows, excel_file.name)
        riders == extract_ridership(view.table_cols)
        merged == MergeStations(agg.station_dict, riders.dict)
        appended == [agg EXCEPT !.time_list = @ \o times, !.dates_list = @ \o dates]
        results == [times |-> times, dates |-> dates, station_riders_dict |-> riders.dict]
        nothing == [times |-> <<>>, dates |-> <<>>, station_riders_dict |-> <<>>]
    IN  IF view.exc # "none" THEN [agg |-> [agg EXCEPT !.exc = view.exc], file |-> nothing]
        ELSE IF riders.exc # "none"
        THEN [agg |-> [agg EXCEPT !.exc = riders.exc], file |-> nothing]
        ELSE [agg |-> [appended EXCEPT !.station_dict = merged.dict, !.exc = merged.exc],
              file |-> results]

(* The try block: troubleshoot is called when nothing was raised before.   *)
TryBody(merged, excel_file, outcome) ==
    LET report == troubleshoot(merged.file.times, merged.file.dates,
                               merged.file.station_riders_dict, excel_file.name, outcome)
    IN  IF merged.agg.exc # "none" THEN merged.agg
        ELSE [merged.agg EXCEPT !.log = @ \o report.block, !.exc = report.exc]

(***************************************************************************)
(* merge_to_json: the mapping that is serialised.                          *)
(***************************************************************************)
RECURSIVE CopyStations(_, _, _)
CopyStations(metro_dict, station_dict, n) ==
    IF n = 0 THEN metro_dict
    ELSE DictSet(CopyStations(metro_dict, station_dict, n - 1),
                 station_dict[n].k, station_dict[n].v)

MetroDict(time_list, dates_list, station_dict) ==
    CopyStations(DictSet(DictSet(<<>>, "date", dates_list), "time", time_list),
                 station_dict, Len(station_dict))

(* The summary main prints.                                                *)
Summary(time, dates, stations) ==
    [line |-> "summary", file |-> <<>>, time |-> Len(time), dates |-> Len(dates),
     stations |-> [j \in 1..Len(stations) |-> Len(dates) - Len(stations[j].v)]]

Skipped(excel_file) ==
    [line |-> "skipped", file |-> excel_file, time |-> 0, dates |-> 0, stations |-> <<>>]

(***************************************************************************)
(* The state.                                                              *)
(*   raw_data      the files of raw-data/, in os.listdir order              *)
(*   idx           the number of files the loop has taken from file_list   *)
(*   time_list, dates_list, station_dict   the aggregates of compile_values *)
(*   log           the blocks of the dated log file                        *)
(*   printed       the lines written to standard output                    *)
(*   metro_dict    the mapping merge_to_json builds                        *)
(*   mrt_data      the content of cleaned-data/mrt_data.json               *)
(*   pc            "loop", "merge", "done" or "aborted"                    *)
(*   exception     the exception that ended the run, "none" otherwise      *)
(***************************************************************************)
VARIABLES raw_data, idx, time_list, dates_list, station_dict, log, printed,
          metro_dict, mrt_data, pc, exception

vars == << raw_data, idx, time_list, dates_list, station_dict, log, printed,
           metro_dict, mrt_data, pc, exception >>

(* The directories the model starts from: one workbook of any rows, or up  *)
(* to MaxFiles files that are laid out as the monthly workbooks are (two   *)
(* of them without a label over some or all exit columns) or cannot be     *)
(* read.                                                                   *)
RECURSIVE SeqsUpTo(_, _)
SeqsUpTo(S, n) ==
    IF n = 0 THEN { <<>> }
    ELSE LET shorter == SeqsUpTo(S, n - 1)
         IN  shorter \cup { Append(q, x) : q \in shorter, x \in S }

AnySheets == SeqsUpTo(RowTemplates, MaxRow) \ { <<>> }

MonthlySheets ==
    { <<h, "marker", d>> : h \in {"names", "names2"}, d \in {"data", "nosignal"} }
        \cup { <<"names", "data">>, <<"entries", "data">> }

Content(kind, rows) == [kind |-> kind, rows |-> rows]

MonthlyContents ==
    { Content("ok", rows) : rows \in MonthlySheets }
        \cup { Content(kind, <<>>) : kind \in {"nosheet", "notzip", "badvalue"} }

Directory(contents) ==
    [j \in 1..Len(contents) |->
        [name |-> FileNames[j], kind |-> contents[j].kind, rows |-> contents[j].rows]]

Directories ==
    { Directory(<< Content("ok", rows) >>) : rows \in AnySheets }
        \cup { Directory(contents) : contents \in SeqsUpTo(MonthlyContents, MaxFiles) }

Init ==
    /\ raw_data \in Directories
    /\ idx = 0
    /\ time_list = <<>>
    /\ dates_list = <<>>
    /\ station_dict = <<>>
    /\ log = <<>>
    /\ printed = <<>>
    /\ metro_dict = <<>>
    /\ mrt_data = <<>>
    /\ pc = "loop"
    /\ exception = "none"

(* One turn of the loop of compile_values: the try block for the next file *)
(* and the handler.  An exception that is no ValueError leaves             *)
(* compile_values and main.                                                *)
ProcessFile ==
    /\ pc = "loop"
    /\ idx < Len(raw_data)
    /\ LET excel_file == raw_data[idx + 1]
           agg == [time_list |-> time_list, dates_list |-> dates_list,
                   station_dict |-> station_dict, log |-> log, exc |-> "none"]
           merged == TryExtractAndMerge(agg, excel_file)
       IN  \E outcome \in LogOutcomes :
              LET after == TryBody(merged, excel_file, outcome)
              IN  /\ idx' = idx + 1
                  /\ time_list' = after.time_list
                  /\ dates_list' = after.dates_list
                  /\ station_dict' = after.station_dict
                  /\ log' = after.log
                  /\ printed' = IF IsValueError(after.exc)
                                THEN Append(printed, Skipped(excel_file.name))
                                ELSE printed
                  /\ pc' = IF after.exc = "none" \/ IsValueError(after.exc)
                           THEN "loop" ELSE "aborted"
                  /\ exception' = IF after.exc = "none" \/ IsValueError(after.exc)
                                  THEN "none" ELSE after.exc
    /\ UNCHANGED << raw_data, metro_dict, mrt_data >>

(* return time_list, dates_list, station_dict.                             *)
CompileReturn ==
    /\ pc = "loop"
    /\ idx = Len(raw_data)
    /\ pc' = "merge"
    /\ UNCHANGED << raw_data, idx, time_list, dates_list, station_dict, log,
                    printed, metro_dict, mrt_data, exception >>

(* merge_to_json and the summary of main; written says whether             *)
(* cleaned-data/mrt_data.json can be opened and written.                   *)
MergeToJson ==
    /\ pc = "merge"
    /\ \E written \in BOOLEAN :
          /\ metro_dict' = MetroDict(time_list, dates_list, station_dict)
          /\ mrt_data' = IF written THEN metro_dict' ELSE mrt_data
          /\ printed' = IF written
                        THEN Append(printed, Summary(time_list, dates_list, station_dict))
                        ELSE printed
          /\ pc' = IF written THEN "done" ELSE "aborted"
          /\ exception' = IF written THEN "none" ELSE "OSError"
    /\ UNCHANGED << raw_data, idx, time_list, dates_list, station_dict, log >>

Next == ProcessFile \/ CompileReturn \/ MergeToJson

Spec == Init /\ [][Next]_vars

(***************************************************************************)
(* What the functions return for file j of raw-data/, for the statements   *)
(* below.                                                                  *)
(***************************************************************************)
View(j) == get_col_rows(raw_data[j])
Readable(j) == View(j).exc = "none"
Times(j) == extract_time(View(j).table_rows)
Dates(j) == generate_date(View(j).table_rows, raw_data[j].name)
Riders(j) == extract_ridership(View(j).table_cols)

(* File j gets through every extraction step: its results reach the        *)
(* aggregation.                                                            *)
Extracted(j) == Readable(j) /\ Riders(j).exc = "none"

Attempted == 1..idx

Files == 1..Len(raw_data)

HasSkippedNote(j) == \E q \in 1..Len(printed) : printed[q] = Skipped(raw_data[j].name)

(* The run ended with an exception raised while file j was processed.      *)
AbortedAt(j) == pc = "aborted" /\ metro_dict = <<>> /\ idx = j

RECURSIVE SumTimes(_)
SumTimes(n) ==
    IF n = 0 THEN 0
    ELSE SumTimes(n - 1) + (IF Readable(n) THEN Len(Times(n)) ELSE 0)

(* The series of station in the files 1..n that have it, one after the     *)
(* other in file order.                                                    *)
RECURSIVE ConcatSeries(_, _)
ConcatSeries(station, n) ==
    IF n = 0 THEN <<>>
    ELSE ConcatSeries(station, n - 1)
            \o (IF Extracted(n) /\ DictHas(Riders(n).dict, station)
                THEN DictGet(Riders(n).dict, station) ELSE <<>>)

AllSameLength(d) == \A a, b \in 1..Len(d) : Len(d[a].v) = Len(d[b].v)

(* The rows of file j whose signal column holds an integer.                *)
QualifyingRows(j) ==
    { r \in 1..Len(View(j).table_rows) : IsInstanceInt(View(j).table_rows[r][SignalCol]) }

(* The rows up to row r with the marker in the marker column.              *)
EntryRows(row_list, r) == { q \in 1..r : row_list[q][MarkerCol] = PyStr("Entry") }

IsDash(cell) == cell = PyStr("-")

(***************************************************************************)
(* C1.  A workbook that lacks the sheet "Daily" or cannot be opened        *)
(* contributes nothing to the aggregates, gets a "skipped" note, and does  *)
(* not end the batch.  The code catches ValueError only: the KeyError of a *)
(* missing sheet leaves compile_values.                                    *)
(***************************************************************************)
C1_UnreadableIsSkipped ==
    /\ \A j \in Attempted : ~Readable(j) => HasSkippedNote(j) /\ ~AbortedAt(j)
    /\ Len(time_list) <= SumTimes(idx)

(***************************************************************************)
(* C2.  For every station of a file that was extracted, the aggregate      *)
(* holds the concatenation, in file order, of the series of the files that *)
(* have the station, also when a later file brings a new station.  The     *)
(* code raises KeyError for a new station once station_dict is not empty.  *)
(***************************************************************************)
C2_AggregateIsConcatenation ==
    \A j \in Attempted : Extracted(j) =>
        \A e \in 1..Len(Riders(j).dict) :
            LET station == Riders(j).dict[e].k
            IN  /\ DictHas(station_dict, station)
                /\ DictGet(station_dict, station) = ConcatSeries(station, idx)

(***************************************************************************)
(* C3.  As claimed: in the mapping merge_to_json builds all lists have the *)
(* same length, and so have the station series of each workbook.           *)
(***************************************************************************)
C3_AllListsAligned ==
    pc = "done" =>
        /\ AllSameLength(metro_dict)
        /\ \A j \in Files : Extracted(j) => AllSameLength(Riders(j).dict)

(* Every station series of file j has one entry per qualifying row.        *)
Uniform(j) ==
    \A e \in 1..Len(Riders(j).dict) : Len(Riders(j).dict[e].v) = Len(Times(j))

SameStations ==
    \A i, j \in Files :
        Extracted(i) /\ Extracted(j) => Keys(Riders(i).dict) = Keys(Riders(j).dict)

(* C3, amended.  The lists of the mapping merge_to_json builds have the    *)
(* same length when the merged workbooks have the same stations and every  *)
(* station series of each has one entry per row whose signal column holds  *)
(* an integer.                                                             *)
C3_AlignedWhenUniform ==
    (/\ metro_dict # <<>>
     /\ SameStations
     /\ \A j \in Files : Extracted(j) => Uniform(j))
        => AllSameLength(metro_dict)

C3_Witness ==
    /\ pc = "done"
    /\ SameStations
    /\ \A j \in Files : Extracted(j) => Uniform(j)
    /\ Cardinality({ j \in Files : Extracted(j) /\ Times(j) # <<>> }) >= 2
    /\ Len(metro_dict) > 2

(***************************************************************************)
(* C4.  extract_time and generate_date return lists of the same length,    *)
(* the number of rows whose signal column holds an integer, and the        *)
(* aggregate time list and date list have the same length.                 *)
(***************************************************************************)
C4_TimeAndDateSameLength ==
    /\ \A j \in Files : Readable(j) =>
          /\ Len(Times(j)) = Cardinality(QualifyingRows(j))
          /\ Len(Dates(j)) = Cardinality(QualifyingRows(j))
    /\ Len(time_list) = Len(dates_list)

C4_Witness ==
    /\ pc = "merge"
    /\ \E i, j \in Attempted :
          /\ i < j
          /\ ~Readable(i) /\ HasSkippedNote(i)
          /\ Extracted(j) /\ Cardinality(QualifyingRows(j)) > 0
    /\ time_list # <<>>

(***************************************************************************)
(* C5.  In generate_date the day counter starts at 0 and grows by one at   *)
(* each row with "Entry" in the marker column and at no other row; the     *)
(* token of a qualifying row carries the number of marker rows up to and   *)
(* including that row.                                                     *)
(***************************************************************************)
ClaimedDates(row_list, year_month) ==
    LET qualifying == SelectSeq([r \in 1..Len(row_list) |-> r],
                                LAMBDA r : IsInstanceInt(row_list[r][SignalCol]))
    IN  [q \in 1..Len(qualifying) |->
            DateToken(year_month, Cardinality(EntryRows(row_list, qualifying[q])))]

C5_DayCounter ==
    \A j \in Files : Readable(j) =>
        LET row_list == View(j).table_rows
            year_month == SplitFirst(raw_data[j].name)
        IN  /\ GenerateDateLoop(row_list, year_month, 0).day = 0
            /\ \A n \in 1..Len(row_list) :
                  GenerateDateLoop(row_list, year_month, n).day
                      = GenerateDateLoop(row_list, year_month, n - 1).day
                          + (IF row_list[n][MarkerCol] = PyStr("Entry") THEN 1 ELSE 0)
            /\ Dates(j) = ClaimedDates(row_list, year_month)

(* A file was processed that has a row with both the marker and an integer *)
(* in the signal column, after an earlier marker row.                      *)
C5_Witness ==
    /\ idx >= 1
    /\ Readable(1)
    /\ \E r \in QualifyingRows(1) :
          /\ r \in EntryRows(View(1).table_rows, r)
          /\ Cardinality(EntryRows(View(1).table_rows, r)) >= 2
    /\ dates_list # <<>>

(***************************************************************************)
(* C6.  As claimed: the value series of every column, the first included,  *)
(* holds the integer cells, a placeholder for each empty cell whose cell   *)
(* in the column before it in the sheet is an integer, and nothing else.   *)
(* For the first column the code takes col_list[-1], the last column.      *)
(***************************************************************************)
RECURSIVE ClaimedSeries(_, _, _)
ClaimedSeries(col, previous, n) ==
    IF n = 0 THEN <<>>
    ELSE LET before == ClaimedSeries(col, previous, n - 1)
         IN  IF IsInstanceInt(col[n]) THEN Append(before, col[n])
             ELSE IF IsNone(col[n]) /\ IsInstanceInt(previous[n]) THEN Append(before, NaN)
             ELSE before

(* Column c of the sheet of file j, from the row-wise view.                *)
SheetColumn(j, c) == [r \in 1..Len(View(j).table_rows) |-> View(j).table_rows[r][c]]

C6_SeriesFromPreviousColumn ==
    \A j \in Attempted : Extracted(j) =>
        \A idx_col \in 1..Len(View(j).table_cols) :
            ColumnLists(View(j).table_cols, idx_col).value_list
                = ClaimedSeries(SheetColumn(j, idx_col + MinCol - 1),
                                SheetColumn(j, idx_col + MinCol - 2),
                                Len(View(j).table_rows))

(***************************************************************************)
(* C7.  As claimed: a cell holding "-" adds exactly one entry to the value *)
(* series of its column and is no label candidate.                         *)
(***************************************************************************)
Dashes(col) == { r \in 1..Len(col) : IsDash(col[r]) }

IntegerCells(col) == { r \in 1..Len(col) : IsInstanceInt(col[r]) }

Missing(col, reference) ==
    { r \in 1..Len(col) : IsNone(col[r]) /\ IsInstanceInt(reference[r]) }

Reference(col_list, idx_col) == col_list[ReferenceIndex(idx_col, Len(col_list))]

C8_NoExitKey ==
    /\ \A j \in Files : Extracted(j) => ~DictHas(Riders(j).dict, "Exit")
    /\ ~DictHas(station_dict, "Exit")
    /\ ~DictHas(metro_dict, "Exit")
    /\ ~DictHas(mrt_data, "Exit")

C8_Witness ==
    /\ pc = "done"
    /\ \E j \in Files :
          /\ Extracted(j)
          /\ DictHas(ExtractColumns(View(j).table_cols, Len(View(j).table_cols)).dict, "Exit")
    /\ Len(mrt_data) > 2

(***************************************************************************)
(* C9.  As claimed: a failure to write the log does not end the run.  The  *)
(* only OSError raised inside the loop is that of troubleshoot, and no     *)
(* handler catches it.                                                     *)
(***************************************************************************)
C9_LogFailureNotFatal ==
    \A j \in Attempted : ~(AbortedAt(j) /\ exception = "OSError")

(***************************************************************************)
(* C10.  As claimed: when the handler of ValueError runs for a file, the   *)
(* aggregates are what they were before the file.  troubleshoot is inside  *)
(* the try block, after the appends, and log.write can raise               *)
(* UnicodeEncodeError, a ValueError.                                       *)
(***************************************************************************)
C10_SkipLeavesAggregates ==
    [][(pc = "loop" /\ Len(printed') > Len(printed)) =>
          /\ time_list' = time_list
          /\ dates_list' = dates_list
          /\ station_dict' = station_dict]_vars

====
